---- MODULE Spec2Model ----
(***************************************************************************)
(* Liveness session of huangjinping/LivenessDemo: the blink / mouth /      *)
(* shake challenge sequence of processLiveness, the best-face tracker      *)
(* captureBestFace with its asynchronous toBlob callback, the restart      *)
(* button and the periodic detection tick.  The module follows             *)
(* src/unnamed/part_000 (the variant with the best-face tracker);          *)
(* src/main.js holds the same challenge logic without the tracker.         *)
(*                                                                         *)
(* Numbers.  JavaScript numbers are modelled as exact fractions            *)
(* [num, den] with den >= 0; den = 0 stands for the IEEE results of a      *)
(* division by zero: num > 0 is +Infinity, num < 0 is -Infinity and        *)
(* num = 0 is NaN.  Landmark coordinates are integers chosen so that       *)
(* every distance taken is the square root of a perfect square.            *)
(***************************************************************************)
EXTENDS Integers, FiniteSets, Sequences, Bags

VARIABLES
    state,              \* 'LOADING' | 'BLINK' | 'MOUTH' | 'SHAKE' | 'COMPLETED'
    detectionLoopId,    \* 0 = null, 1 = the interval started by onVideoPlay
    blinkCounter,
    mouthOpenCounter,
    headShakeData,      \* [left, right, lastX]
    bestFace,           \* [blob, score]
    pending,            \* bag of stills whose toBlob callback has not run yet
    now,                \* Date.now()
    op,                 \* the handler that made the last step
    sample,             \* the detection the last step processed
    edge,               \* the challenge the last step logged as detected
    captureCalled,      \* whether the last step called captureBestFace
    outcome,            \* what the last step surfaced: onCompleted's upload or alert
    inFlight,           \* ticks of the interval still awaiting detectAllFaces
    served,             \* the last step's tick, counted from the oldest in flight
    script,             \* the recorded run the camera replays, "none" for a live one
    step,               \* how much of the recorded run has been replayed
    frames              \* face frames processed since the last start, when counted

vars == <<state, detectionLoopId, blinkCounter, mouthOpenCounter, headShakeData,
          bestFace, pending, now, op, sample, edge, captureCalled, outcome,
          inFlight, served, script, step, frames>>

----------------------------------------------------------------------------
(* Bounds of the model. *)

MaxCount == 4       \* longest run of closed-eye / open-mouth frames
MaxPending == 2     \* toBlob callbacks outstanding at once
StartMs == 1        \* Date.now() when the page starts
MaxElapsed == 2001  \* milliseconds the clock runs on
MaxInFlight == 2    \* ticks awaiting their detection at once
MaxFrames == 8      \* face frames counted; the count stays there

Deltas == {500, 1999, 2000, 2001}   \* time that may pass between two handlers

----------------------------------------------------------------------------
(* Numbers. *)

Frac(n, d) == IF d < 0 THEN [num |-> 0 - n, den |-> 0 - d] ELSE [num |-> n, den |-> d]

IsNaN(a) == a.den = 0 /\ a.num = 0

\* a < b as JavaScript evaluates it: false as soon as one side is NaN.
Less(a, b) ==
    /\ ~IsNaN(a)
    /\ ~IsNaN(b)
    /\ IF a.den = 0 /\ b.den = 0
       THEN a.num < 0 /\ b.num > 0
       ELSE a.num * b.den < b.num * a.den

Greater(a, b) == Less(b, a)

Plus(a, b) ==
    IF a.den = 0 /\ b.den = 0
    THEN (IF (a.num > 0 /\ b.num > 0) THEN [num |-> 1, den |-> 0]
          ELSE IF (a.num < 0 /\ b.num < 0) THEN [num |-> 0 - 1, den |-> 0]
          ELSE [num |-> 0, den |-> 0])
    ELSE [num |-> a.num * b.den + b.num * a.den, den |-> a.den * b.den]

Halve(a) == [num |-> a.num, den |-> a.den * 2]

\* Math.sqrt on the perfect squares the landmark sets below produce.
Roots == [n \in {r * r : r \in 0..30} |-> CHOOSE r \in 0..30 : r * r = n]

Sqrt(n) == Roots[n]

----------------------------------------------------------------------------
(* Configuration. *)

BLINK_THRESHOLD == Frac(3, 10)
MOUTH_OPEN_THRESHOLD == Frac(3, 10)

----------------------------------------------------------------------------
(* Landmarks.  A detection is described by seven numbers: its score and,   *)
(* on a face 20 units wide, the lid gap of each eye, the lip gap and the x *)
(* of the nose tip, then the corner-to-corner width of the left eye and    *)
(* the width of the jaw, which are 20 unless the detector hands out a      *)
(* collapsed contour.  Landmarks expands them into the point groups        *)
(* face-api.js hands out, in its fixed order, and the metrics below read   *)
(* those points at the indices the code reads.                             *)

(* A group is varied in the states whose handlers read it; in the others it *)
(* is held at rest (eyes open, mouth shut, nose centred, lowest score) but  *)
(* for a few frames that show another challenge's gesture.  The score is    *)
(* read only of a frontal face and is varied on the centred nose only.      *)

EyeGaps == {2, 3, 4}            \* EAR 0.2, 0.3, 0.4
MouthGaps == {1, 3, 5}          \* MAR 0.1, 0.3, 0.5
CaptureNoses == {6, 9, 10, 11}  \* noseRelX 0.3, 0.45, 0.5, 0.55
ShakeNoses == {6, 8, 10, 12, 14}    \* noseRelX 0.3, 0.4, 0.5, 0.6, 0.7
Scores == {1, 2}                \* detection.score, in levels

Widths == {0, 20}               \* a collapsed contour, a regular one

\* The detections of the model: faces near the frontal band, head turns with a
\* regular or a collapsed jaw, and frames with a collapsed eye or several gestures.
Samples ==
    [score : Scores, eyeL : EyeGaps, eyeR : EyeGaps, mouth : MouthGaps,
     nose : CaptureNoses, corner : {20}, jawW : {20}]
    \cup [score : {1}, eyeL : {4}, eyeR : {4}, mouth : {1},
          nose : ShakeNoses, corner : {20}, jawW : Widths]
    \cup [score : {1}, eyeL : {0, 2, 4}, eyeR : {2, 4}, mouth : {1, 5},
          nose : {6}, corner : Widths, jawW : {20}]

\* Both contours regular.
Regular(p) == p.corner = 20 /\ p.jawW = 20 /\ p.eyeL # 0

\* The left eye collapsed: its corners coincide, its lids apart or not.
CollapsedEye(p) ==
    /\ p.corner = 0 /\ p.jawW = 20
    /\ p.eyeL \in {0, 2} /\ p.eyeR \in {2, 4}
    /\ p.mouth = 1 /\ p.score = 1 /\ p.nose = 6

\* The jaw collapsed: its two ends coincide, the nose tip on either side or on it.
CollapsedJaw(p) ==
    /\ p.corner = 20 /\ p.jawW = 0
    /\ p.eyeL = 4 /\ p.eyeR = 4
    /\ p.mouth = 1 /\ p.score = 1 /\ p.nose \in {6, 10, 14}

\* Eyes shut or open, mouth wide open and head turned, all in one frame.
Gestures(p) ==
    /\ Regular(p)
    /\ p.eyeL = p.eyeR /\ p.eyeL \in {2, 4}
    /\ p.mouth = 5 /\ p.score = 1 /\ p.nose = 6

SamplesIn ==
    [st \in {"LOADING", "BLINK", "MOUTH", "SHAKE", "COMPLETED"} |->
        CASE st = "BLINK" ->
                {p \in Samples : \/ /\ Regular(p)
                                    /\ p.eyeR \in {p.eyeL, 4}
                                    /\ p.mouth = 1
                                    /\ p.nose \in CaptureNoses
                                    /\ p.score = 2 => p.nose = 10
                                 \/ CollapsedEye(p)
                                 \/ Gestures(p)}
          [] st = "MOUTH" ->
                {p \in Samples : \/ /\ Regular(p)
                                    /\ p.eyeL = 4 /\ p.eyeR = 4
                                    /\ p.nose \in CaptureNoses
                                    /\ p.score = 2 => p.nose = 10
                                 \/ Gestures(p) /\ p.eyeL = 2}
          [] st = "SHAKE" ->
                {p \in Samples : \/ /\ Regular(p)
                                    /\ p.eyeL = 4 /\ p.eyeR = 4
                                    /\ p.mouth = 1
                                    /\ p.score = 1
                                    /\ p.nose \in ShakeNoses
                                 \/ CollapsedJaw(p)
                                 \/ Gestures(p) /\ p.eyeL = 2}
          [] OTHER ->
                {p \in Samples : \/ /\ Regular(p)
                                    /\ p.eyeL = 4 /\ p.eyeR = 4
                                    /\ p.mouth = 1
                                    /\ p.score = 1
                                    /\ p.nose = 10
                                 \/ Gestures(p) /\ p.eyeL = 2}]

NoSample ==
    [score |-> 0, eyeL |-> 0, eyeR |-> 0, mouth |-> 0, nose |-> 0,
     corner |-> 0, jawW |-> 0]

Pt(x, y) == [x |-> x, y |-> y]

\* An eye of lid gap g whose corners are w apart.
EyeContour(g, w) ==
    [i \in 0..5 |-> CASE i = 0 -> Pt(0, 10)
                      [] i = 1 -> Pt(w \div 4, 10 - g)
                      [] i = 2 -> Pt((3 * w) \div 4, 10 - g)
                      [] i = 3 -> Pt(w, 10)
                      [] i = 4 -> Pt((3 * w) \div 4, 10 + g)
                      [] i = 5 -> Pt(w \div 4, 10 + g)]

MouthContour(g) ==
    [i \in 0..19 |-> CASE i = 0 -> Pt(0, 10)
                       [] i = 3 -> Pt(10, 10 - g)
                       [] i = 6 -> Pt(20, 10)
                       [] i = 9 -> Pt(10, 10 + g)
                       [] OTHER -> Pt(10, 10)]

NoseRidge(x) == [i \in 0..8 |-> IF i = 3 THEN Pt(x, 12) ELSE Pt(x, 8)]

\* A jaw whose two ends are w apart, about the middle of the frame.
JawOutline(w) ==
    [i \in 0..16 |-> CASE i = 0 -> Pt(10 - w \div 2, 10)
                       [] i = 16 -> Pt(10 + w \div 2, 10)
                       [] OTHER -> Pt(10, 20)]

Landmarks(p) ==
    [leftEye |-> EyeContour(p.eyeL, p.corner), rightEye |-> EyeContour(p.eyeR, 20),
     mouth |-> MouthContour(p.mouth), nose |-> NoseRidge(p.nose),
     jaw |-> JawOutline(p.jawW)]

\* The image drawImage / toBlob take of a frame, named by what the frame shows.
Still(p) == [score |-> p.score, nose |-> p.nose]

Null == [score |-> 0, nose |-> 0]

----------------------------------------------------------------------------
(* Helpers. *)

Abs(n) == IF n < 0 THEN 0 - n ELSE n

dist(p1, p2) == Sqrt((p1.x - p2.x) * (p1.x - p2.x) + (p1.y - p2.y) * (p1.y - p2.y))

\* getEAR answering 0 for an eye whose corners coincide.
getEAR_ZeroForCollapsed(eye) ==
    IF dist(eye[0], eye[3]) = 0
    THEN Frac(0, 1)
    ELSE Frac(dist(eye[1], eye[5]) + dist(eye[2], eye[4]), 2 * dist(eye[0], eye[3]))

getEAR(eye) ==
    LET A == dist(eye[1], eye[5])
        B == dist(eye[2], eye[4])
        C == dist(eye[0], eye[3])
    IN  Frac(A + B, 2 * C)

getMAR(mouth) ==
    LET height == dist(mouth[3], mouth[9])
        width == dist(mouth[0], mouth[6])
    IN  Frac(height, width)

avgEAR(lm) == Halve(Plus(getEAR(lm.leftEye), getEAR(lm.rightEye)))

noseRelX(lm) ==
    LET noseTip == lm.nose[3]
        faceLeft == lm.jaw[0].x
        faceRight == lm.jaw[16].x
        faceWidth == faceRight - faceLeft
    IN  Frac(noseTip.x - faceLeft, faceWidth)

----------------------------------------------------------------------------
(* Session logic. *)

\* resetMetrics without its last line: the best face is kept.
resetMetrics_KeepsBestFace ==
    [blinkCounter |-> 0, mouthOpenCounter |-> 0,
     headShakeData |-> [left |-> 0, right |-> 0, lastX |-> 0],
     bestFace |-> bestFace]

\* resetMetrics without its line for headShakeData: the timestamps are kept.
resetMetrics_KeepsShakeData ==
    [blinkCounter |-> 0, mouthOpenCounter |-> 0,
     headShakeData |-> headShakeData,
     bestFace |-> [blob |-> Null, score |-> 0]]

\* resetMetrics: the values the trackers and the best face are set to.
resetMetrics ==
    [blinkCounter |-> 0, mouthOpenCounter |-> 0,
     headShakeData |-> [left |-> 0, right |-> 0, lastX |-> 0],
     bestFace |-> [blob |-> Null, score |-> 0]]

\* onCompleted without its test of the blob: uploadFace is handed whatever is held.
onCompleted_AlwaysUploads(bf) == "image"

\* onCompleted: uploadFace(blob) when a blob is held, the alert without one.
onCompleted(bf) == IF bf.blob # Null THEN "image" ELSE "nocapture"

\* updateUI: the only part with an effect outside the page is onCompleted.
updateUI(st, bf) == IF st = "COMPLETED" THEN onCompleted(bf) ELSE "none"

\* The guard without its test for SHAKE.
CaptureAllowed_InShake(st) == st # "COMPLETED" /\ st # "LOADING"

\* The tick's guard on captureBestFace.
CaptureAllowed(st) == st # "SHAKE" /\ st # "COMPLETED" /\ st # "LOADING"

\* isFrontal with >= and <= for > and <.
isFrontal_Inclusive(r) ==
    /\ ~IsNaN(r)
    /\ ~Less(r, Frac(45, 100))
    /\ ~Greater(r, Frac(55, 100))

isFrontal(r) == Greater(r, Frac(45, 100)) /\ Less(r, Frac(55, 100))

\* captureBestFace: whether it draws the frame and calls toBlob.
captureBestFace(bf, score, lm) == isFrontal(noseRelX(lm)) /\ score > bf.score

EyesClosed(ear) == Less(ear, BLINK_THRESHOLD)

\* BlinkDone asking for two closed frames.
BlinkDone_TwoFrames(counter) == counter >= 2

\* BlinkDone asking for no closed frame at all.
BlinkDone_AtOnce(counter) == counter >= 0

BlinkDone(counter) == counter >= 1

\* MouthOpen with >= for >.
MouthOpen_Inclusive(mar) == ~Less(mar, MOUTH_OPEN_THRESHOLD) /\ ~IsNaN(mar)

MouthOpen(mar) == Greater(mar, MOUTH_OPEN_THRESHOLD)

\* MouthDone asking for four open frames.
MouthDone_FourFrames(counter) == counter > 3

MouthDone(counter) == counter > 2

LooksLeft(r) == Less(r, Frac(4, 10))

\* LooksRight with 0.7 for 0.6.
LooksRight_Far(r) == Greater(r, Frac(7, 10))

LooksRight(r) == Greater(r, Frac(6, 10))

\* ShakeDone with <= for <.
ShakeDone_Inclusive(hsd) ==
    hsd.left # 0 /\ hsd.right # 0 /\ Abs(hsd.left - hsd.right) <= 2000

ShakeDone(hsd) ==
    hsd.left # 0 /\ hsd.right # 0 /\ Abs(hsd.left - hsd.right) < 2000

\* blinkDetection writing the wrong next state.
blinkDetection_Skip(cur, lm) ==
    IF EyesClosed(avgEAR(lm))
    THEN [cur EXCEPT !.blinkCounter = @ + 1]
    ELSE IF BlinkDone(cur.blinkCounter)
         THEN [cur EXCEPT !.state = "SHAKE", !.edge = "blink", !.blinkCounter = 0]
         ELSE [cur EXCEPT !.blinkCounter = 0]

\* The SHAKE branch clearing both timestamps when the pair does not complete.
shakeDetection_ClearsFailedPair(cur, lm, t) ==
    LET r == noseRelX(lm)
        l1 == IF LooksLeft(r) THEN t ELSE cur.headShakeData.left
        r1 == IF LooksRight(r) THEN t ELSE cur.headShakeData.right
        h1 == [cur.headShakeData EXCEPT !.left = l1, !.right = r1]
    IN  IF ShakeDone(h1)
        THEN [cur EXCEPT !.state = "COMPLETED", !.edge = "shake", !.headShakeData = h1]
        ELSE IF h1.left # 0 /\ h1.right # 0
             THEN [cur EXCEPT !.headShakeData = [h1 EXCEPT !.left = 0, !.right = 0]]
             ELSE [cur EXCEPT !.headShakeData = h1]

\* The three branches of processLiveness.  cur holds the state, the trackers
\* and the logged detection ("none" so far); each branch gives their values
\* after the call.
blinkDetection(cur, lm) ==
    IF EyesClosed(avgEAR(lm))
    THEN [cur EXCEPT !.blinkCounter = @ + 1]
    ELSE IF BlinkDone(cur.blinkCounter)
         THEN [cur EXCEPT !.state = "MOUTH", !.edge = "blink", !.blinkCounter = 0]
         ELSE [cur EXCEPT !.blinkCounter = 0]

mouthDetection(cur, lm) ==
    IF MouthOpen(getMAR(lm.mouth))
    THEN [cur EXCEPT !.mouthOpenCounter = @ + 1]
    ELSE IF MouthDone(cur.mouthOpenCounter)
         THEN [cur EXCEPT !.state = "SHAKE", !.edge = "mouth", !.mouthOpenCounter = 0]
         ELSE [cur EXCEPT !.mouthOpenCounter = 0]

shakeDetection(cur, lm, t) ==
    LET r == noseRelX(lm)
        l1 == IF LooksLeft(r) THEN t ELSE cur.headShakeData.left
        r1 == IF LooksRight(r) THEN t ELSE cur.headShakeData.right
        h1 == [cur.headShakeData EXCEPT !.left = l1, !.right = r1]
    IN  IF ShakeDone(h1)
        THEN [cur EXCEPT !.state = "COMPLETED", !.edge = "shake", !.headShakeData = h1]
        ELSE [cur EXCEPT !.headShakeData = h1]

\* processLiveness without its early return and with a plain else for SHAKE.
processLiveness_ShakeAsDefault(cur, lm, t) ==
    IF cur.state = "BLINK" THEN blinkDetection(cur, lm)
    ELSE IF cur.state = "MOUTH" THEN mouthDetection(cur, lm)
    ELSE shakeDetection(cur, lm, t)

\* processLiveness with an if for each else if: the frame that completes a
\* challenge is handed on to the next branch.
processLiveness_FallsThrough(cur, lm, t) ==
    IF cur.state = "COMPLETED" THEN cur
    ELSE LET c1 == IF cur.state = "BLINK" THEN blinkDetection(cur, lm) ELSE cur
             c2 == IF c1.state = "MOUTH" THEN mouthDetection(c1, lm) ELSE c1
         IN  IF c2.state = "SHAKE" THEN shakeDetection(c2, lm, t) ELSE c2

\* processLiveness: the early return and the if / else-if chain on the state.
processLiveness(cur, lm, t) ==
    IF cur.state = "COMPLETED" THEN cur
    ELSE IF cur.state = "BLINK" THEN blinkDetection(cur, lm)
    ELSE IF cur.state = "MOUTH" THEN mouthDetection(cur, lm)
    ELSE IF cur.state = "SHAKE" THEN shakeDetection(cur, lm, t)
    ELSE cur

----------------------------------------------------------------------------
(* Handlers.  Each is one turn of the event loop and runs to completion.   *)
(* Every handler records itself in op and what it read, logged and called  *)
(* in sample, edge, captureCalled and outcome.  A tick that finds the      *)
(* video paused or ended returns before it reads or writes anything and is *)
(* left out.                                                               *)

Loaded ==
    /\ state = "LOADING"
    /\ detectionLoopId = 0
    /\ blinkCounter = 0
    /\ mouthOpenCounter = 0
    /\ headShakeData = [left |-> 0, right |-> 0, lastX |-> 0]
    /\ bestFace = [blob |-> Null, score |-> 0]
    /\ pending = EmptyBag
    /\ now = StartMs
    /\ op = "init"
    /\ sample = NoSample
    /\ edge = "none"
    /\ captureCalled = FALSE
    /\ outcome = "none"
    /\ inFlight = 0
    /\ served = 0
    /\ step = 0
    /\ frames = 0

Init == Loaded /\ script = "none"

\* startLivenessTest: state = 'BLINK', resetMetrics(), updateUI().
startLivenessTest ==
    /\ state' = "BLINK"
    /\ blinkCounter' = resetMetrics.blinkCounter
    /\ mouthOpenCounter' = resetMetrics.mouthOpenCounter
    /\ headShakeData' = resetMetrics.headShakeData
    /\ bestFace' = resetMetrics.bestFace
    /\ outcome' = updateUI("BLINK", resetMetrics.bestFace)
    /\ sample' = NoSample
    /\ edge' = "none"
    /\ captureCalled' = FALSE

\* onVideoPlay, run once when the camera's metadata has loaded: state = 'READY',
\* startLivenessTest() and the interval, all in one turn of the event loop.
OnVideoPlay ==
    /\ detectionLoopId = 0
    /\ startLivenessTest
    /\ detectionLoopId' = 1
    /\ op' = "start"
    /\ UNCHANGED <<pending, now>>

\* The click handler of the restart button.
Restart ==
    /\ startLivenessTest
    /\ op' = "restart"
    /\ UNCHANGED <<detectionLoopId, pending, now>>

\* One run of the interval callback past its await, with a face detected:
\* captureBestFace under the tick's guard, then processLiveness.
FaceFrame(p) ==
    /\ detectionLoopId # 0
    /\ \E lm \in {Landmarks(p)} :
       \E called \in {CaptureAllowed(state)} :
       \E starts \in {called /\ captureBestFace(bestFace, p.score, lm)} :
       \E r \in {processLiveness(
                    [state |-> state, blinkCounter |-> blinkCounter,
                     mouthOpenCounter |-> mouthOpenCounter,
                     headShakeData |-> headShakeData, edge |-> "none"],
                    lm, now)} :
           /\ r.blinkCounter <= MaxCount
           /\ r.mouthOpenCounter <= MaxCount
           /\ starts => BagCardinality(pending) < MaxPending
           /\ captureCalled' = called
           /\ pending' = IF starts THEN pending (+) SetToBag({Still(p)}) ELSE pending
           /\ state' = r.state
           /\ blinkCounter' = r.blinkCounter
           /\ mouthOpenCounter' = r.mouthOpenCounter
           /\ headShakeData' = r.headShakeData
           /\ edge' = r.edge
           /\ outcome' = IF r.edge = "none" THEN "none" ELSE updateUI(r.state, bestFace)
    /\ op' = "face"
    /\ sample' = p
    /\ UNCHANGED <<detectionLoopId, bestFace, now>>

\* The no-face tick ending a run of closed-eye or open-mouth frames.
NoFaceFrame_EndsRun ==
    /\ detectionLoopId # 0
    /\ op' = "noface"
    /\ sample' = NoSample
    /\ edge' = "none"
    /\ captureCalled' = FALSE
    /\ outcome' = "none"
    /\ blinkCounter' = 0
    /\ mouthOpenCounter' = 0
    /\ UNCHANGED <<state, detectionLoopId, headShakeData, bestFace, pending, now>>

\* One run of the interval callback with no face detected.
NoFaceFrame ==
    /\ detectionLoopId # 0
    /\ op' = "noface"
    /\ sample' = NoSample
    /\ edge' = "none"
    /\ captureCalled' = FALSE
    /\ outcome' = "none"
    /\ UNCHANGED <<state, detectionLoopId, blinkCounter, mouthOpenCounter,
                   headShakeData, bestFace, pending, now>>

\* One run of the interval callback whose detection promise rejects: the await
\* throws, the callback has no try / catch, and its own promise, which
\* setInterval drops, rejects; nothing after the await runs.
TickFail ==
    /\ detectionLoopId # 0
    /\ op' = "fail"
    /\ sample' = NoSample
    /\ edge' = "none"
    /\ captureCalled' = FALSE
    /\ outcome' = "none"
    /\ UNCHANGED <<state, detectionLoopId, blinkCounter, mouthOpenCounter,
                   headShakeData, bestFace, pending, now>>

\* The callback of one toBlob call; ok is whether it is handed a blob.
ToBlobDone(job, ok) ==
    /\ BagIn(job, pending)
    /\ pending' = pending (-) SetToBag({job})
    /\ bestFace' = IF ok THEN [blob |-> job, score |-> job.score] ELSE bestFace
    /\ op' = "toBlob"
    /\ sample' = NoSample
    /\ edge' = "none"
    /\ captureCalled' = FALSE
    /\ outcome' = "none"
    /\ UNCHANGED <<state, detectionLoopId, blinkCounter, mouthOpenCounter,
                   headShakeData, now>>

\* Time passing between two handlers.
Elapse(d) ==
    /\ now + d <= StartMs + MaxElapsed
    /\ now' = now + d
    /\ op' = "elapse"
    /\ sample' = NoSample
    /\ edge' = "none"
    /\ captureCalled' = FALSE
    /\ outcome' = "none"
    /\ UNCHANGED <<state, detectionLoopId, blinkCounter, mouthOpenCounter,
                   headShakeData, bestFace, pending>>

\* The interval fires: the callback runs up to its await, where the detection
\* of the current video frame is started; nothing of the session is read or
\* written before it.  setInterval does not wait for the earlier callbacks.
Tick ==
    /\ detectionLoopId # 0
    /\ inFlight < MaxInFlight
    /\ inFlight' = inFlight + 1
    /\ served' = 0
    /\ op' = "tick"
    /\ sample' = NoSample
    /\ edge' = "none"
    /\ captureCalled' = FALSE
    /\ outcome' = "none"
    /\ UNCHANGED <<state, detectionLoopId, blinkCounter, mouthOpenCounter,
                   headShakeData, bestFace, pending, now>>

\* The detection of the k-th oldest tick in flight settles and the rest of its
\* callback runs.  Each callback awaits its own promise and nothing orders the
\* promises of different ticks, so k is any of the ticks in flight.
Settles(k) ==
    /\ k \in 1..inFlight
    /\ inFlight' = inFlight - 1
    /\ served' = k

\* A tick whose detection settles before the interval fires again: the await
\* and the rest of the callback are one step.
Serial == inFlight = 0 /\ inFlight' = 0 /\ served' = 1

\* A handler that is not a tick.
NoTick == served' = 0 /\ UNCHANGED inFlight

\* A step that replays nothing of a recorded run and counts no frame.
Live == UNCHANGED <<script, step, frames>>

\* A step of a live run in which the frames are counted: a face frame adds one,
\* startLivenessTest starts the count again.
Counted ==
    /\ UNCHANGED <<script, step>>
    /\ frames' = CASE op' = "face" -> IF frames < MaxFrames THEN frames + 1 ELSE frames
                    [] op' \in {"start", "restart"} -> 0
                    [] OTHER -> frames

(* The session with every detection faster than the tick period. *)
Next ==
    \/ OnVideoPlay /\ NoTick /\ Live
    \/ Restart /\ NoTick /\ Live
    \/ \E p \in SamplesIn[state] : FaceFrame(p) /\ Serial /\ Live
    \/ NoFaceFrame /\ Serial /\ Live
    \/ TickFail /\ Serial /\ Live
    \/ \E job \in BagToSet(pending), ok \in BOOLEAN :
            ToBlobDone(job, ok) /\ NoTick /\ Live
    \/ \E d \in Deltas : Elapse(d) /\ NoTick /\ Live

Spec == Init /\ [][Next]_vars

(* The session with detections that may outlast the tick period: several    *)
(* ticks are in flight and their callbacks resume as their promises settle. *)
TicksNext ==
    \/ OnVideoPlay /\ NoTick /\ Live
    \/ Restart /\ NoTick /\ Live
    \/ Tick /\ Live
    \/ \E k \in 1..inFlight : \E p \in SamplesIn[state] :
            FaceFrame(p) /\ Settles(k) /\ Live
    \/ \E k \in 1..inFlight : NoFaceFrame /\ Settles(k) /\ Live
    \/ \E k \in 1..inFlight : TickFail /\ Settles(k) /\ Live
    \/ \E job \in BagToSet(pending), ok \in BOOLEAN :
            ToBlobDone(job, ok) /\ NoTick /\ Live
    \/ \E d \in Deltas : Elapse(d) /\ NoTick /\ Live

SpecTicks == Init /\ [][TicksNext]_vars

----------------------------------------------------------------------------
(* Recorded runs.  A recorded run is a list of frames, each fixing the one  *)
(* measure processLiveness reads of it (the EAR of the two eyes, the MAR or *)
(* noseRelX), and of waits between frames; everything a frame leaves open   *)
(* (score, nose position under the eye and mouth challenges) is free.       *)

Eyes(l, r) == [kind |-> "eyes", a |-> l, b |-> r]
Mouth(g) == [kind |-> "mouth", a |-> g, b |-> 0]
Nose(x) == [kind |-> "nose", a |-> x, b |-> 0]
Wait(d) == [kind |-> "wait", a |-> d, b |-> 0]

Scripts ==
    [stated |->
        <<Eyes(2, 2), Eyes(3, 4),                              \* EAR 0.2, 0.35
          Mouth(1), Mouth(1), Mouth(1), Mouth(1), Mouth(1),    \* MAR 0.1 five times
          Nose(6), Wait(500), Nose(14)>>,                      \* noseRelX 0.3, 0.7
     opened |->
        <<Eyes(2, 2), Eyes(3, 4),
          Mouth(5), Mouth(5), Mouth(5), Mouth(5), Mouth(1),    \* MAR 0.5 four times, 0.1
          Nose(6), Wait(500), Nose(14)>>]

\* The detections that show what entry e of a recorded run fixes.
Showing(e) ==
    {p \in Samples :
        /\ Regular(p)
        /\ p.score = 2 => p.nose = 10
        /\ CASE e.kind = "eyes" ->
                    /\ p.eyeL = e.a /\ p.eyeR = e.b
                    /\ p.mouth = 1 /\ p.nose \in CaptureNoses
              [] e.kind = "mouth" ->
                    /\ p.eyeL = 4 /\ p.eyeR = 4
                    /\ p.mouth = e.a /\ p.nose \in CaptureNoses
              [] e.kind = "nose" ->
                    /\ p.eyeL = 4 /\ p.eyeR = 4
                    /\ p.mouth = 1 /\ p.score = 1 /\ p.nose = e.a
              [] OTHER -> FALSE}

\* The next frame of the recorded run reaches the interval callback.
ScriptFrame ==
    /\ script # "none"
    /\ step < Len(Scripts[script])
    /\ \E p \in Showing(Scripts[script][step + 1]) : FaceFrame(p) /\ Serial
    /\ step' = step + 1
    /\ UNCHANGED <<script, frames>>

\* The recorded run pauses before its next frame.
ScriptWait ==
    /\ script # "none"
    /\ step < Len(Scripts[script])
    /\ Scripts[script][step + 1].kind = "wait"
    /\ now' = now + Scripts[script][step + 1].a
    /\ op' = "elapse"
    /\ sample' = NoSample
    /\ edge' = "none"
    /\ captureCalled' = FALSE
    /\ outcome' = "none"
    /\ step' = step + 1
    /\ NoTick
    /\ UNCHANGED <<state, detectionLoopId, blinkCounter, mouthOpenCounter,
                   headShakeData, bestFace, pending, script, frames>>

(* The session fed a recorded run: its frames in their order, ticks with    *)
(* no face and toBlob callbacks in between.                                 *)
ScriptNext ==
    \/ OnVideoPlay /\ NoTick /\ Live
    \/ ScriptFrame
    \/ ScriptWait
    \/ NoFaceFrame /\ Serial /\ Live
    \/ \E job \in BagToSet(pending), ok \in BOOLEAN :
            ToBlobDone(job, ok) /\ NoTick /\ Live

\* The detections of a counted run: those of SamplesIn at the lowest score and
\* off the two borders of the frontal band, which no challenge reads.
CountedIn(st) == {p \in SamplesIn[st] : p.score = 1 /\ p.nose \notin {9, 11}}

(* The session of Next with its face frames counted. *)
CountNext ==
    \/ OnVideoPlay /\ NoTick /\ Counted
    \/ Restart /\ NoTick /\ Counted
    \/ \E p \in CountedIn(state) : FaceFrame(p) /\ Serial /\ Counted
    \/ NoFaceFrame /\ Serial /\ Counted
    \/ TickFail /\ Serial /\ Counted
    \/ \E job \in BagToSet(pending), ok \in BOOLEAN :
            ToBlobDone(job, ok) /\ NoTick /\ Counted
    \/ \E d \in Deltas : Elapse(d) /\ NoTick /\ Counted

SpecCount == Init /\ [][CountNext]_vars

ScriptInit == Loaded /\ script \in DOMAIN Scripts

SpecScript == ScriptInit /\ [][ScriptNext]_vars

----------------------------------------------------------------------------
(* src/main.js.  The second implementation in the repository, translated   *)
(* from its own text: the same page without bestFace, captureBestFace and  *)
(* onCompleted.  Its session is the record [state, blinkCounter,           *)
(* mouthOpenCounter, headShakeData].                                       *)

\* main.js with a higher mouth threshold than part_000.
Main_MOUTH_OPEN_THRESHOLD_Half == Frac(5, 10)

Main_BLINK_THRESHOLD == Frac(3, 10)
Main_MOUTH_OPEN_THRESHOLD == Frac(3, 10)

Main_dist(p1, p2) ==
    Sqrt((p1.x - p2.x) * (p1.x - p2.x) + (p1.y - p2.y) * (p1.y - p2.y))

Main_getEAR(eye) ==
    LET A == Main_dist(eye[1], eye[5])
        B == Main_dist(eye[2], eye[4])
        C == Main_dist(eye[0], eye[3])
    IN  Frac(A + B, 2 * C)

Main_getMAR(mouth) ==
    LET height == Main_dist(mouth[3], mouth[9])
        width == Main_dist(mouth[0], mouth[6])
    IN  Frac(height, width)

\* The module-level values of main.js.
Main_Loaded ==
    [state |-> "LOADING", blinkCounter |-> 0, mouthOpenCounter |-> 0,
     headShakeData |-> [left |-> 0, right |-> 0, lastX |-> 0]]

Main_resetMetrics ==
    [blinkCounter |-> 0, mouthOpenCounter |-> 0,
     headShakeData |-> [left |-> 0, right |-> 0, lastX |-> 0]]

\* startLivenessTest of main.js, called by onVideoPlay and by the restart click.
Main_startLivenessTest ==
    [state |-> "BLINK",
     blinkCounter |-> Main_resetMetrics.blinkCounter,
     mouthOpenCounter |-> Main_resetMetrics.mouthOpenCounter,
     headShakeData |-> Main_resetMetrics.headShakeData]

\* processLiveness of main.js on the session m, at Date.now() = t.
Main_processLiveness(m, lm, t) ==
    IF m.state = "COMPLETED" THEN m
    ELSE IF m.state = "BLINK" THEN
        LET leftEAR == Main_getEAR(lm.leftEye)
            rightEAR == Main_getEAR(lm.rightEye)
            avg == Halve(Plus(leftEAR, rightEAR))
        IN  IF Less(avg, Main_BLINK_THRESHOLD)
            THEN [m EXCEPT !.blinkCounter = @ + 1]
            ELSE IF m.blinkCounter >= 1
                 THEN [m EXCEPT !.state = "MOUTH", !.blinkCounter = 0]
                 ELSE [m EXCEPT !.blinkCounter = 0]
    ELSE IF m.state = "MOUTH" THEN
        LET mar == Main_getMAR(lm.mouth)
        IN  IF Greater(mar, Main_MOUTH_OPEN_THRESHOLD)
            THEN [m EXCEPT !.mouthOpenCounter = @ + 1]
            ELSE IF m.mouthOpenCounter > 2
                 THEN [m EXCEPT !.state = "SHAKE", !.mouthOpenCounter = 0]
                 ELSE [m EXCEPT !.mouthOpenCounter = 0]
    ELSE IF m.state = "SHAKE" THEN
        LET noseTip == lm.nose[3]
            faceLeft == lm.jaw[0].x
            faceRight == lm.jaw[16].x
            faceWidth == faceRight - faceLeft
            rel == Frac(noseTip.x - faceLeft, faceWidth)
            left1 == IF Less(rel, Frac(4, 10)) THEN t ELSE m.headShakeData.left
            right1 == IF Greater(rel, Frac(6, 10)) THEN t ELSE m.headShakeData.right
            h1 == [m.headShakeData EXCEPT !.left = left1, !.right = right1]
        IN  IF h1.left # 0 /\ h1.right # 0 /\ Abs(h1.left - h1.right) < 2000
            THEN [m EXCEPT !.state = "COMPLETED", !.headShakeData = h1]
            ELSE [m EXCEPT !.headShakeData = h1]
    ELSE m

\* What one handler of main.js makes of the session m: the interval callback
\* with a face, the restart click and onVideoPlay; a tick without a face or
\* with a failed detection writes nothing, and main.js has no toBlob callback.
Main_Handler(m, handler, p, t) ==
    CASE handler \in {"start", "restart"} -> Main_startLivenessTest
      [] handler = "face" -> Main_processLiveness(m, Landmarks(p), t)
      [] OTHER -> m

----------------------------------------------------------------------------
(* What the frames of the model show, read off the sample itself: on the   *)
(* 20-unit face an eye of gap g has EAR g/10, a mouth of gap g has MAR     *)
(* g/10 and a nose tip at x has noseRelX x/20.  An eye whose corners       *)
(* coincide has no EAR below any threshold.                                *)

ShowsEyesClosed(p) ==                                      \* avgEAR < 0.30
    p.corner = 20 /\ (p.eyeL + p.eyeR) * 10 < 3 * 20
ShowsMouthOpen(p) == p.mouth * 10 > 3 * 10                 \* MAR > 0.30

FaceStepIn(st) == op' = "face" /\ state = st

----------------------------------------------------------------------------
(* C1: once the loop runs, the session state changes only BLINK -> MOUTH,   *)
(* MOUTH -> SHAKE, SHAKE -> COMPLETED, each in a face frame, or to BLINK in *)
(* a restart; nothing else changes it, so only a restart leaves COMPLETED.  *)
C1_Transitions ==
    [][detectionLoopId # 0 =>
        \/ state' = state
        \/ state = "BLINK" /\ state' = "MOUTH" /\ op' = "face"
        \/ state = "MOUTH" /\ state' = "SHAKE" /\ op' = "face"
        \/ state = "SHAKE" /\ state' = "COMPLETED" /\ op' = "face"
        \/ state' = "BLINK" /\ op' = "restart"]_vars

C1_Witness == state = "COMPLETED" /\ op = "face" /\ edge = "shake"

(* C2: in BLINK a face frame with avgEAR < 0.30 adds one to blinkCounter    *)
(* and logs nothing; a face frame with avgEAR >= 0.30 logs the blink and    *)
(* moves to MOUTH when blinkCounter >= 1, logs nothing and stays in BLINK   *)
(* when blinkCounter = 0, and leaves blinkCounter = 0 either way; a blink   *)
(* is logged by no other step.                                              *)
C2_Blink ==
    [][/\ FaceStepIn("BLINK") =>
            IF ShowsEyesClosed(sample')
            THEN state' = "BLINK" /\ edge' = "none" /\ blinkCounter' = blinkCounter + 1
            ELSE IF blinkCounter >= 1
                 THEN state' = "MOUTH" /\ edge' = "blink" /\ blinkCounter' = 0
                 ELSE state' = "BLINK" /\ edge' = "none" /\ blinkCounter' = 0
       /\ edge' = "blink" => FaceStepIn("BLINK")]_vars

C2_Witness == op = "face" /\ edge = "blink" /\ state = "MOUTH" /\ blinkCounter = 0

(* C3 as stated: in MOUTH the face frame with MAR <= 0.30 that ends a run   *)
(* of open-mouth frames logs the mouth and moves to SHAKE exactly when the  *)
(* run was 4 frames or longer.                                              *)
C3_Original ==
    [][FaceStepIn("MOUTH") =>
            IF ShowsMouthOpen(sample')
            THEN state' = "MOUTH" /\ edge' = "none"
            ELSE IF mouthOpenCounter >= 4
                 THEN state' = "SHAKE" /\ edge' = "mouth"
                 ELSE state' = "MOUTH" /\ edge' = "none"]_vars

(* C3 amended: the same with 3 frames or longer; a mouth is logged by no    *)
(* other step.                                                              *)
C3_MouthRun ==
    [][/\ FaceStepIn("MOUTH") =>
            IF ShowsMouthOpen(sample')
            THEN state' = "MOUTH" /\ edge' = "none"
            ELSE IF mouthOpenCounter >= 3
                 THEN state' = "SHAKE" /\ edge' = "mouth"
                 ELSE state' = "MOUTH" /\ edge' = "none"
       /\ edge' = "mouth" => FaceStepIn("MOUTH")]_vars

C3_Witness == op = "face" /\ edge = "mouth" /\ state = "SHAKE"

(* C4: in MOUTH a face frame with MAR > 0.30 adds one to mouthOpenCounter;  *)
(* a face frame with MAR <= 0.30 sets it to 0 and moves to SHAKE exactly    *)
(* when it was above 2.                                                     *)
C4_MouthCounter ==
    [][FaceStepIn("MOUTH") =>
            IF ShowsMouthOpen(sample')
            THEN mouthOpenCounter' = mouthOpenCounter + 1
            ELSE /\ mouthOpenCounter' = 0
                 /\ state' = (IF mouthOpenCounter > 2 THEN "SHAKE" ELSE "MOUTH")
                 /\ (edge' = "mouth") = (mouthOpenCounter > 2)]_vars

C4_Witness ==
    /\ op = "face" /\ state = "MOUTH" /\ edge = "none"
    /\ ~ShowsMouthOpen(sample) /\ mouthOpenCounter = 0

(* C5: a face frame in SHAKE logs the shake and moves to COMPLETED exactly  *)
(* when, with the timestamps as that frame leaves them, both are non-zero   *)
(* and less than 2000 ms apart.                                             *)
C5_ShakeWindow ==
    [][FaceStepIn("SHAKE") =>
        LET l == headShakeData'.left
            r == headShakeData'.right
            fires == l # 0 /\ r # 0 /\ l - r < 2000 /\ r - l < 2000
        IN  /\ state' = (IF fires THEN "COMPLETED" ELSE "SHAKE")
            /\ edge' = (IF fires THEN "shake" ELSE "none")]_vars

C5_Witness ==
    /\ op = "face" /\ state = "COMPLETED"
    /\ headShakeData.left # 0
    /\ headShakeData.right = headShakeData.left + 1999

(* C6: after restart, as after start, the state is BLINK, both counters    *)
(* and both timestamps are 0 and the best face is cleared, whatever the     *)
(* state and the trackers were.                                             *)
Clean ==
    /\ state = "BLINK"
    /\ blinkCounter = 0
    /\ mouthOpenCounter = 0
    /\ headShakeData.left = 0
    /\ headShakeData.right = 0
    /\ bestFace.blob = Null
    /\ bestFace.score = 0

C6_RestartClean == (op = "restart" \/ op = "start") => Clean

C6_Witness == op = "restart" /\ Clean /\ pending # EmptyBag /\ now > StartMs

(* C7 as stated: no step other than start or restart lowers the score of    *)
(* the best face.                                                           *)
C7_ScoreMonotone ==
    [][(op' # "restart" /\ op' # "start") => bestFace'.score >= bestFace.score]_vars

(* C8: a tick with no face detected changes neither the state, nor a        *)
(* counter, nor a timestamp, nor the best face.                             *)
C8_NoFaceNoOp ==
    [][op' = "noface" =>
        UNCHANGED <<state, blinkCounter, mouthOpenCounter, headShakeData, bestFace>>]_vars

C8_Witness ==
    \/ op = "noface" /\ state = "BLINK" /\ blinkCounter >= 1
    \/ op = "noface" /\ state = "MOUTH" /\ mouthOpenCounter >= 1

(* C9 as stated: a frame handed to the tracker replaces the best face by    *)
(* its own still and score when 0.45 <= noseRelX <= 0.55 and its score is   *)
(* above the held one, and leaves the best face as it is otherwise.         *)
C9_Original ==
    [][(op' = "face" /\ captureCalled') =>
        LET p == sample'
            frontal == p.nose * 100 >= 45 * 20 /\ p.nose * 100 <= 55 * 20
        IN  bestFace' = IF frontal /\ p.score > bestFace.score
                        THEN [blob |-> Still(p), score |-> p.score]
                        ELSE bestFace]_vars

(* C9 amended: a frame handed to the tracker starts the encoding of its     *)
(* still exactly when 0.45 < noseRelX < 0.55 and its score is above the     *)
(* held one, and does not itself change the best face; the callback of an   *)
(* encoding ends that encoding and, handed a blob, makes that still and its *)
(* score the best face.                                                     *)
C9_Tracker ==
    [][/\ (op' = "face" /\ captureCalled') =>
            LET p == sample'
                frontal == p.nose * 100 > 45 * 20 /\ p.nose * 100 < 55 * 20
            IN  /\ bestFace' = bestFace
                /\ pending' = IF frontal /\ p.score > bestFace.score
                              THEN pending (+) SetToBag({Still(p)})
                              ELSE pending
       /\ (op' = "face" /\ ~captureCalled') => UNCHANGED <<bestFace, pending>>
       /\ op' = "toBlob" =>
            \E job \in BagToSet(pending) :
                /\ pending' = pending (-) SetToBag({job})
                /\ \/ bestFace' = bestFace
                   \/ bestFace' = [blob |-> job, score |-> job.score]]_vars

C9_Witness ==
    /\ op = "toBlob"
    /\ bestFace.blob # Null
    /\ bestFace.score = bestFace.blob.score
    /\ bestFace.blob.nose = 10

(* C10 as stated: a face frame is handed to the tracker exactly when the    *)
(* state it arrives in is BLINK, MOUTH or SHAKE.                            *)
C10_Original ==
    [][op' = "face" => (captureCalled' = (state \in {"BLINK", "MOUTH", "SHAKE"}))]_vars

(* C10 amended: a face frame is handed to the tracker exactly when the      *)
(* state it arrives in, before its challenge is evaluated, is BLINK or      *)
(* MOUTH; no other step calls the tracker.                                  *)
C10_CaptureStates ==
    [][/\ op' = "face" => (captureCalled' = (state \in {"BLINK", "MOUTH"}))
       /\ op' # "face" => ~captureCalled']_vars

C10_Witness == op = "face" /\ captureCalled /\ state = "SHAKE" /\ edge = "mouth"

C12_ArrivalOrder == [][served' \in {0, 1}]_vars

(* C13: in BLINK a face frame whose left eye has coincident corners, its    *)
(* lids apart or all six points in one place, is processed like any face    *)
(* frame and counts as open: it does not add to blinkCounter, which is 0    *)
(* after it, whatever the other eye shows.                                  *)
C13_CollapsedEyeOpen ==
    [][FaceStepIn("BLINK") /\ sample'.corner = 0 =>
            /\ blinkCounter' = 0
            /\ state' = IF blinkCounter >= 1 THEN "MOUTH" ELSE "BLINK"
            /\ UNCHANGED <<mouthOpenCounter, headShakeData, detectionLoopId>>]_vars

C13_Witness ==
    /\ op = "face" /\ state = "BLINK" /\ blinkCounter = 0
    /\ sample.corner = 0 /\ sample.eyeL = 0 /\ sample.eyeR = 2

(* C14: in SHAKE a face frame whose jaw ends share one x counts as frontal: *)
(* it writes neither headShakeData.left nor headShakeData.right and the     *)
(* session stays in SHAKE.                                                  *)
C14_CollapsedJawNeutral ==
    [][FaceStepIn("SHAKE") /\ sample'.jawW = 0 =>
            /\ UNCHANGED headShakeData
            /\ state' = "SHAKE"]_vars

(* C15: a tick whose detection call fails leaves the state, the trackers    *)
(* and the best face as they were and surfaces the failure as an error, in  *)
(* a step that is no state transition.                                      *)
C15_FailureSurfaced ==
    [][op' = "fail" =>
            /\ UNCHANGED <<state, blinkCounter, mouthOpenCounter, headShakeData,
                           bestFace, pending, detectionLoopId>>
            /\ outcome' = "error"]_vars

\* Where the session stands after each entry of a recorded run whose first two
\* frames complete the blink, next five the mouth and last two the shake.
ThreeChallenges ==
    /\ step \in 2..6 => state = "MOUTH"
    /\ step \in 7..9 => state = "SHAKE"
    /\ step = 10 => state = "COMPLETED"

(* C16 as stated: from a clean BLINK the frames EAR 0.2, EAR 0.35 take the  *)
(* session to MOUTH, five frames of MAR 0.1 take it on to SHAKE, and        *)
(* noseRelX 0.3 followed 500 ms later by noseRelX 0.7 to COMPLETED.         *)
C16_Original == script = "stated" => ThreeChallenges

(* C16: from a clean BLINK the frames EAR 0.2, EAR 0.35 take the session to *)
(* MOUTH, the mouth frames MAR 0.5, 0.5, 0.5, 0.5, 0.1 take it on to SHAKE  *)
(* on the last of them, and noseRelX 0.3 followed 500 ms later by noseRelX  *)
(* 0.7 to COMPLETED.                                                        *)
C16_EndToEnd == script = "opened" => ThreeChallenges

C16_Witness ==
    /\ script = "opened" /\ step = 10
    /\ state = "COMPLETED" /\ op = "face" /\ edge = "shake"

(* C17: a tracker is non-zero only in the state of its challenge:           *)
(* blinkCounter > 0 only in BLINK, mouthOpenCounter > 0 only in MOUTH and a *)
(* non-zero headShakeData.left or .right only in SHAKE or COMPLETED; so     *)
(* every entry into a state, by a frame or by a restart, finds the tracker  *)
(* of that state at zero.                                                   *)
C17_TrackersZeroOutside ==
    /\ blinkCounter > 0 => state = "BLINK"
    /\ mouthOpenCounter > 0 => state = "MOUTH"
    /\ (headShakeData.left # 0 \/ headShakeData.right # 0)
            => state \in {"SHAKE", "COMPLETED"}

\* The frame that ends an open-mouth run enters SHAKE: the run's count is gone
\* and no timestamp is set.
C17_Witness ==
    /\ op = "face" /\ state = "SHAKE" /\ edge = "mouth"
    /\ blinkCounter = 0 /\ mouthOpenCounter = 0
    /\ headShakeData.left = 0 /\ headShakeData.right = 0

(* C18: a face frame changes only the tracker of the state it is processed  *)
(* in: in BLINK it leaves mouthOpenCounter and headShakeData as they were,  *)
(* in MOUTH blinkCounter and headShakeData, in SHAKE both counters, and in  *)
(* COMPLETED all three, whatever the frame shows.                           *)
C18_OwnTrackerOnly ==
    [][op' = "face" =>
            /\ state = "BLINK" => UNCHANGED <<mouthOpenCounter, headShakeData>>
            /\ state = "MOUTH" => UNCHANGED <<blinkCounter, headShakeData>>
            /\ state = "SHAKE" => UNCHANGED <<blinkCounter, mouthOpenCounter>>
            /\ state = "COMPLETED" =>
                    UNCHANGED <<blinkCounter, mouthOpenCounter, headShakeData>>]_vars

\* A frame with the eyes shut, the mouth open and the head turned, processed in
\* COMPLETED after the clock has moved on.
C18_Witness ==
    /\ op = "face" /\ state = "COMPLETED" /\ edge = "none"
    /\ sample.eyeL = 2 /\ sample.mouth = 5 /\ sample.nose = 6
    /\ now > headShakeData.left /\ now > headShakeData.right

(* C19: in SHAKE a face frame with a regular jaw never clears a timestamp:  *)
(* with 0.4 <= noseRelX <= 0.6 it changes neither, with noseRelX < 0.4 it   *)
(* sets headShakeData.left to the time of the frame and leaves .right, with *)
(* noseRelX > 0.6 it sets .right and leaves .left; the window is tested on  *)
(* every such frame against whatever the other timestamp holds, so the      *)
(* frame that brings the two timestamps within 2000 ms of each other ends   *)
(* in COMPLETED, and SHAKE never holds such a pair.                         *)
C19_StaleTimestamps ==
    [][/\ FaceStepIn("SHAKE") /\ sample'.jawW = 20 =>
            /\ headShakeData'.left =
                    IF sample'.nose * 10 < 4 * 20 THEN now ELSE headShakeData.left
            /\ headShakeData'.right =
                    IF sample'.nose * 10 > 6 * 20 THEN now ELSE headShakeData.right
            /\ state' = IF /\ headShakeData'.left # 0
                           /\ headShakeData'.right # 0
                           /\ headShakeData'.left - headShakeData'.right < 2000
                           /\ headShakeData'.right - headShakeData'.left < 2000
                        THEN "COMPLETED" ELSE "SHAKE"
       /\ state' = "SHAKE" =>
            \/ headShakeData'.left = 0
            \/ headShakeData'.right = 0
            \/ headShakeData'.left - headShakeData'.right >= 2000
            \/ headShakeData'.right - headShakeData'.left >= 2000]_vars

\* A centred frame processed while a pair too far apart is held: both
\* timestamps are still there.
C19_Witness ==
    /\ op = "face" /\ state = "SHAKE" /\ sample.nose = 10 /\ sample.jawW = 20
    /\ headShakeData.left # 0 /\ headShakeData.right # 0

(* C20: a face frame moves the session on by one state at most, and the     *)
(* frame that completes a challenge is not read by the next one: after the  *)
(* frame that moves BLINK to MOUTH mouthOpenCounter is 0, and after the     *)
(* frame that moves MOUTH to SHAKE both timestamps are 0, whatever else the *)
(* frame shows.                                                             *)
C20_OneStatePerFrame ==
    [][op' = "face" /\ state' # state =>
            \/ /\ state = "BLINK" /\ state' = "MOUTH"
               /\ mouthOpenCounter' = 0
               /\ headShakeData'.left = 0 /\ headShakeData'.right = 0
            \/ /\ state = "MOUTH" /\ state' = "SHAKE"
               /\ headShakeData'.left = 0 /\ headShakeData'.right = 0
            \/ /\ state = "SHAKE" /\ state' = "COMPLETED"]_vars

\* The open-eye frame that completes the blink shows an open mouth and a
\* turned head as well.
C20_Witness ==
    /\ op = "face" /\ edge = "blink" /\ state = "MOUTH"
    /\ sample.mouth = 5 /\ sample.nose = 6
    /\ mouthOpenCounter = 0

(* C21: a toBlob callback whose toBlob call was made before a restart does  *)
(* not write bestFace after that restart; in particular the callback that   *)
(* runs right after a restart, when no face frame has been processed since, *)
(* leaves bestFace as the restart cleared it.                               *)
C21_NoWriteAfterRestart ==
    [][op = "restart" /\ op' = "toBlob" =>
            /\ bestFace' = bestFace
            /\ bestFace'.blob = Null /\ bestFace'.score = 0]_vars

(* C22: in a run with no restart, a toBlob call outstanding or a blob held  *)
(* means that a frame since start was frontal with a score above the held   *)
(* one; the frame that then takes the session into COMPLETED surfaces an    *)
(* image, not the completed-without-capture alert, and the image is that of *)
(* the frame whose score bestFace.score holds.                              *)
C22_ImageSurfaced ==
    [][/\ state # "COMPLETED" /\ state' = "COMPLETED"
       /\ pending # EmptyBag \/ bestFace.blob # Null
       => /\ outcome' = "image"
          /\ bestFace'.blob.score = bestFace'.score]_vars

\* The part of the session of part_000 that main.js has as well.
Protocol ==
    [state |-> state, blinkCounter |-> blinkCounter,
     mouthOpenCounter |-> mouthOpenCounter, headShakeData |-> headShakeData]

(* C23: fed the same frames, no-face ticks and restarts, main.js and        *)
(* part_000 pass through the same states and the same values of             *)
(* blinkCounter, mouthOpenCounter and headShakeData: they start alike, and  *)
(* every step of part_000 leaves its state and trackers as the same handler *)
(* of main.js, which knows no best face, leaves them; the steps only        *)
(* part_000 has (the toBlob callbacks) change none of them.                 *)
C23_SameProtocol ==
    /\ Protocol = Main_Loaded
    /\ [][Protocol' = Main_Handler(Protocol, op', sample', now)]_vars

\* A session of part_000 completed with an image held.
C23_Witness ==
    /\ op = "face" /\ state = "COMPLETED" /\ outcome = "image"
    /\ bestFace.blob # Null /\ pending # EmptyBag

(* C24: the session is in COMPLETED only after at least 8 face frames have  *)
(* been processed since the last start or restart, in MOUTH only after at   *)
(* least 2 and in SHAKE only after at least 6.  The frame that leaves BLINK *)
(* follows a closed-eye frame counted in BLINK, the frame that leaves MOUTH *)
(* follows three open-mouth frames counted in MOUTH, and the frame that     *)
(* takes SHAKE to COMPLETED is never the first one processed in SHAKE: a    *)
(* timestamp was already set before it.                                     *)
C24_EightFrames ==
    [][/\ state' = "MOUTH" => frames' >= 2
       /\ state' = "SHAKE" => frames' >= 6
       /\ state' = "COMPLETED" => frames' >= 8
       /\ state = "BLINK" /\ state' = "MOUTH" => blinkCounter >= 1 /\ frames >= 1
       /\ state = "MOUTH" /\ state' = "SHAKE" => mouthOpenCounter >= 3 /\ frames >= 5
       /\ state = "SHAKE" /\ state' = "COMPLETED" =>
            /\ headShakeData.left # 0 \/ headShakeData.right # 0
            /\ frames >= 7]_vars

\* A session completed with every counted frame behind it and an image held.
C24_Witness ==
    /\ op = "face" /\ state = "COMPLETED" /\ frames = MaxFrames
    /\ bestFace.blob # Null


====
